---- MODULE Spec2Model ----
(***************************************************************************)
(* The resumable training orchestrator of mnist.py: the relaunch loop of   *)
(* the __main__ block (history read, learning-rate derivation, setup,      *)
(* reseeding, run), MnistExperiment.setup_logger (the task list), and the  *)
(* optimisation helper that steps the optimiser and dispatches the tasks.  *)
(*                                                                         *)
(* Learning rates.  Every rate the program handles has the form            *)
(*     cfg * D^(-1/2)                                                      *)
(* where cfg is the value of --learning-rate and D is a positive integer.  *)
(* A rate is represented by D ("inverse square, relative to cfg"), and the *)
(* exponent --learning-rate-pow by pow2 = 2 * pow (the default 0.5 is 1).  *)
(* So  r = (1 + i // const) ** -pow * base  is                             *)
(*     D(r) = (1 + i \div const)^pow2 * D(base),                           *)
(* and r1 <= r2 iff D(r1) >= D(r2).                                        *)
(***************************************************************************)
EXTENDS Integers, Sequences, FiniteSets, TLC

VARIABLES
    pc,             \* position of the script: launch, setup, seed, running, terminated, crashed, probe
    args_const,     \* args.learning_rate_schedule_const
    args_pow2,      \* 2 * args.learning_rate_pow
    timeout,        \* run_settings.get("timeout", np.inf)
    lr_base,        \* lr_base (line 113)
    learning_rate,  \* run_settings['learning_rate']
    i,              \* the script's variable i (line 115); 0 while unbound
    file,           \* the history file at exp.hist_path
    tasks,          \* the task bindings of exp.logger, in list order
    logger_i,       \* the helper's global iteration counter
    hist,           \* the helper's in-memory history (iteration of each record)
    elapsed,        \* wall-clock seconds since the start of the run
    maxiter,        \* maxiter of the current exp.run call
    run_steps,      \* optimiser steps taken by the current exp.run call
    rngX,           \* exp.m.X.index_manager.rng
    rngY,           \* exp.m.Y.index_manager.rng
    dispatched,     \* names of the tasks fired by the last step, in firing order
    launches,       \* iterations of the relaunch loop started so far
    opt_steps,      \* optimiser steps taken by the process so far
    timeouts,       \* termination signals raised so far
    probe           \* the inputs and results of a stand-alone derivation

vars == <<pc, args_const, args_pow2, timeout, lr_base, learning_rate, i, file, tasks,
          logger_i, hist, elapsed, maxiter, run_steps, rngX, rngY, dispatched,
          launches, opt_steps, timeouts, probe>>

----------------------------------------------------------------------------
(* Bounds *)

MaxConst == 2
MaxPow2 == 2
MaxLaunches == 2
SeedRange == 2
MaxProbeIter == 8

\* seconds one optimiser step (with the tasks it fires) may take
StepDurations == {1, 11, 40, 1800}

----------------------------------------------------------------------------
(* Arithmetic *)

RECURSIVE Pow(_, _)
Pow(b, e) == IF e = 0 THEN 1 ELSE b * Pow(b, e - 1)

MaxOf(a, b) == IF a >= b THEN a ELSE b

\* round(p * num / den), halves up
RoundMul(p, num, den) == (2 * p * num + den) \div (2 * den)

RangeOf(s) == {s[k] : k \in 1..Len(s)}

----------------------------------------------------------------------------
(* The history file *)

Absent == [state |-> "absent", log |-> <<>>]
Corrupt == [state |-> "corrupt", log |-> <<>>]
Valid(log) == [state |-> "valid", log |-> log]

\* os.path.exists(exp.hist_path)
Exists(f) == f.state # "absent"

\* pd.read_pickle raises on a file that is present and cannot be unpickled
ReadRaises(f) == f.state = "corrupt"

\* .i.max() of a loaded history
RECURSIVE MaxIteration(_)
MaxIteration(log) ==
    IF Len(log) = 0 THEN 0
    ELSE MaxOf(Head(log), MaxIteration(Tail(log)))

\* the value of i when no history file exists
DefaultIteration == 1

----------------------------------------------------------------------------
(* Learning-rate derivation, lines 115-117 *)

DecayBase(ii, const) == 1 + (ii \div const)

\* variant: i % const in place of i // const
LearningRate_modulo(base, ii, const, pow2) == Pow(1 + (ii % const), pow2) * base

LearningRate(base, ii, const, pow2) == Pow(DecayBase(ii, const), pow2) * base

\* variant: the number of records in place of the greatest iteration
ReadIteration_count(f) ==
    [raised |-> ReadRaises(f),
     value |-> IF Exists(f) THEN Len(f.log) ELSE DefaultIteration]

\* variant: a read error is swallowed and the default is used
ReadIteration_swallow(f) ==
    [raised |-> FALSE,
     value |-> IF f.state = "valid" THEN MaxIteration(f.log) ELSE DefaultIteration]

\* i = pd.read_pickle(exp.hist_path).i.max() if os.path.exists(exp.hist_path) else 1.0
ReadIteration(f) ==
    [raised |-> Exists(f) /\ ReadRaises(f),
     value |-> IF Exists(f) THEN MaxIteration(f.log) ELSE DefaultIteration]

\* variant: the rate left in run_settings by the previous launch
DerivationBase_compound == learning_rate

\* the base rate the derivation multiplies: lr_base, read once before the loop
DerivationBase == lr_base

----------------------------------------------------------------------------
(* Trigger schedules *)

\* itertools.count(first, step)
Count(first, step) == [kind |-> "count", first |-> first, a |-> step, b |-> 1]

\* opt_tools.seq_exp_lin(growth = num/den, ..., start_jump = first): a geometric
\* sequence of fire points with a minimum increment of 1.  The second positional
\* argument of the calls (20, 150, 600) is not interpreted: the fire points below
\* are the purely geometric ones.
SeqExpLin(num, den, first) == [kind |-> "exp", first |-> first, a |-> num, b |-> den]

\* the Timeout task's ceiling
Ceiling(t) == [kind |-> IF t.finite THEN "ceiling" ELSE "never",
               first |-> t.ceiling, a |-> 0, b |-> 1]

NextPoint(s, p) ==
    IF s.kind = "count" THEN p + s.a
    ELSE MaxOf(p + 1, RoundMul(p, s.a, s.b))

\* the least fire point of s, from p on, beyond progress
RECURSIVE PointAfter(_, _, _)
PointAfter(s, p, progress) ==
    IF p > progress THEN p ELSE PointAfter(s, NextPoint(s, p), progress)

Binding(name, trigger, seq) ==
    [name |-> name, trigger |-> trigger, seq |-> seq, next |-> seq.first]

----------------------------------------------------------------------------
(* MnistExperiment.setup_logger, lines 58-75 *)

Unbounded == [finite |-> FALSE, ceiling |-> 0]
Within(c) == [finite |-> TRUE, ceiling |-> c]

\* variant: the history is stored before the metrics are logged and evaluated
setup_logger_tasks_reordered ==
    << Binding("DisplayOptimisation", "iter", SeqExpLin(11, 10, 1)),
       Binding("StoreOptimisationHistory", "time", SeqExpLin(3, 2, 30)),
       Binding("GPflowLogOptimisation", "iter", SeqExpLin(11, 10, 1)),
       Binding("GPflowMultiClassificationTrackerLml", "time", Count(1800, 1800)),
       Binding("GPflowMultiClassificationTracker", "time", SeqExpLin(3, 2, 30)),
       Binding("Timeout", "time", Ceiling(timeout)) >>

\* variant: the bindings of an existing logger are kept
setup_logger_tasks_reused ==
    IF tasks # <<>> THEN tasks
    ELSE << Binding("DisplayOptimisation", "iter", SeqExpLin(11, 10, 1)),
            Binding("GPflowLogOptimisation", "iter", SeqExpLin(11, 10, 1)),
            Binding("GPflowMultiClassificationTrackerLml", "time", Count(1800, 1800)),
            Binding("GPflowMultiClassificationTracker", "time", SeqExpLin(3, 2, 30)),
            Binding("StoreOptimisationHistory", "time", SeqExpLin(3, 2, 30)),
            Binding("Timeout", "time", Ceiling(timeout)) >>

\* tasks = [...], lines 62-74
setup_logger_tasks ==
    << Binding("DisplayOptimisation", "iter", SeqExpLin(11, 10, 1)),
       Binding("GPflowLogOptimisation", "iter", SeqExpLin(11, 10, 1)),
       Binding("GPflowMultiClassificationTrackerLml", "time", Count(1800, 1800)),
       Binding("GPflowMultiClassificationTracker", "time", SeqExpLin(3, 2, 30)),
       Binding("StoreOptimisationHistory", "time", SeqExpLin(3, 2, 30)),
       Binding("Timeout", "time", Ceiling(timeout)) >>

\* variant: old_hist is not handed on
old_hist_dropped(f) == <<>>

\* h = pd.read_pickle(self.hist_path) if os.path.exists(self.hist_path) else None,
\* handed on as old_hist=h (line 70); None is the empty history
old_hist(f) == IF Exists(f) THEN f.log ELSE <<>>

----------------------------------------------------------------------------
(* The optimisation helper: one optimiser step and its task dispatch *)

Progress(t, it, el) == IF t.trigger = "iter" THEN it ELSE el

IsDue(t, it, el) ==
    CASE t.seq.kind = "never" -> FALSE
      [] t.seq.kind = "ceiling" -> el > t.next
      [] OTHER -> Progress(t, it, el) >= t.next

\* the tasks fired by one step, in list order; a task that raises ends the dispatch
RECURSIVE Dispatch(_, _, _)
Dispatch(ts, it, el) ==
    IF ts = <<>> THEN <<>>
    ELSE IF ~IsDue(Head(ts), it, el) THEN Dispatch(Tail(ts), it, el)
    ELSE IF Head(ts).name = "Timeout" THEN <<"Timeout">>
    ELSE <<Head(ts).name>> \o Dispatch(Tail(ts), it, el)

Rebind(t, it, el) ==
    IF t.seq.kind \in {"never", "ceiling"} THEN t
    ELSE [t EXCEPT !.next = PointAfter(t.seq, t.next, Progress(t, it, el))]

----------------------------------------------------------------------------
(* Actions *)

Unseeded == [seeded |-> FALSE, seed |-> 0]
Seeded(s) == [seeded |-> TRUE, seed |-> s]

Idle == [i1 |-> 0, i2 |-> 0, base1 |-> 0, base2 |-> 0, lr1 |-> 0, lr2 |-> 0, done |-> FALSE]

Configs ==
    /\ args_const \in 1..MaxConst
    /\ args_pow2 \in 0..MaxPow2
    /\ lr_base = 1
    /\ learning_rate = 1

Quiet ==
    /\ i = 0
    /\ tasks = <<>>
    /\ logger_i = 0
    /\ hist = <<>>
    /\ elapsed = 0
    /\ maxiter = 0
    /\ run_steps = 0
    /\ rngX = Unseeded
    /\ rngY = Unseeded
    /\ dispatched = <<>>
    /\ launches = 0
    /\ opt_steps = 0
    /\ timeouts = 0

\* the state after line 113
Init ==
    /\ pc = "launch"
    /\ Configs
    /\ timeout \in {Within(10), Unbounded}
    /\ file \in {Absent, Corrupt}
    /\ Quiet
    /\ probe = Idle

\* lines 115-118
Launch ==
    /\ pc = "launch"
    /\ launches' = launches + 1
    /\ LET r == ReadIteration(file) IN
         IF r.raised
         THEN /\ pc' = "crashed"
              /\ UNCHANGED <<i, learning_rate>>
         ELSE /\ i' = r.value
              /\ learning_rate' = LearningRate(DerivationBase, r.value, args_const, args_pow2)
              /\ pc' = "setup"
    /\ UNCHANGED <<args_const, args_pow2, timeout, lr_base, file, tasks, logger_i, hist,
                   elapsed, maxiter, run_steps, rngX, rngY, dispatched, opt_steps,
                   timeouts, probe>>

\* line 119: exp.setup() builds a new model and calls setup_logger, which reads the
\* history again (line 59) and builds the helper over a new task list; the helper
\* takes its history and iteration counter from old_hist and starts its timer
Setup ==
    /\ pc = "setup"
    /\ IF Exists(file) /\ ReadRaises(file)
       THEN /\ pc' = "crashed"
            /\ UNCHANGED <<tasks, logger_i, hist, elapsed, dispatched, rngX, rngY>>
       ELSE /\ pc' = "seed"
            /\ tasks' = setup_logger_tasks
            /\ hist' = old_hist(file)
            /\ logger_i' = MaxIteration(old_hist(file))
            /\ elapsed' = 0
            /\ dispatched' = <<>>
            /\ rngX' = Unseeded
            /\ rngY' = Unseeded
    /\ UNCHANGED <<args_const, args_pow2, timeout, lr_base, learning_rate, i, file,
                   maxiter, run_steps, launches, opt_steps, timeouts, probe>>

\* variant: the Y sampler is seeded from a second draw
Reseed_independent ==
    /\ pc = "seed"
    /\ \E sx \in 0..(SeedRange - 1), sy \in 0..(SeedRange - 1) :
         /\ rngX' = Seeded(sx)
         /\ rngY' = Seeded(sy)
    /\ maxiter' = args_const
    /\ run_steps' = 0
    /\ pc' = "running"
    /\ UNCHANGED <<args_const, args_pow2, timeout, lr_base, learning_rate, i, file, tasks,
                   logger_i, hist, elapsed, dispatched, launches, opt_steps, timeouts, probe>>

\* lines 120-123: reseed both samplers, then call exp.run(maxiter=const)
Reseed ==
    /\ pc = "seed"
    /\ \E rndstate \in 0..(SeedRange - 1) :
         /\ rngX' = Seeded(rndstate)
         /\ rngY' = Seeded(rndstate)
    /\ maxiter' = args_const
    /\ run_steps' = 0
    /\ pc' = "running"
    /\ UNCHANGED <<args_const, args_pow2, timeout, lr_base, learning_rate, i, file, tasks,
                   logger_i, hist, elapsed, dispatched, launches, opt_steps, timeouts, probe>>

\* one optimiser step of exp.run, with the dispatch of the due tasks: the iteration
\* counter advances, the due tasks fire in list order, the history task appends a
\* record of the current iteration and writes the file, the timeout task raises the
\* termination signal, which ends the run as does reaching maxiter; exp.run then
\* returns to the relaunch loop
Step ==
    /\ pc = "running"
    /\ run_steps < maxiter
    /\ \E dt \in StepDurations :
         LET it == logger_i + 1
             el == elapsed + dt
             fired == Dispatch(tasks, it, el)
             stored == "StoreOptimisationHistory" \in RangeOf(fired)
             signal == "Timeout" \in RangeOf(fired)
             h2 == IF stored THEN Append(hist, it) ELSE hist
         IN /\ logger_i' = it
            /\ elapsed' = el
            /\ dispatched' = fired
            /\ tasks' = [k \in 1..Len(tasks) |->
                            IF tasks[k].name \in RangeOf(fired)
                            THEN Rebind(tasks[k], it, el) ELSE tasks[k]]
            /\ hist' = h2
            /\ file' = IF stored THEN Valid(h2) ELSE file
            /\ timeouts' = IF signal THEN timeouts + 1 ELSE timeouts
            /\ pc' = IF signal \/ run_steps + 1 >= maxiter THEN "terminated" ELSE "running"
    /\ run_steps' = run_steps + 1
    /\ opt_steps' = opt_steps + 1
    /\ UNCHANGED <<args_const, args_pow2, timeout, lr_base, learning_rate, i, maxiter,
                   rngX, rngY, launches, probe>>

\* line 114: while True (the loop has no exit; MaxLaunches bounds the model)
Relaunch ==
    /\ pc = "terminated"
    /\ launches < MaxLaunches
    /\ pc' = "launch"
    /\ UNCHANGED <<args_const, args_pow2, timeout, lr_base, learning_rate, i, file, tasks,
                   logger_i, hist, elapsed, maxiter, run_steps, rngX, rngY, dispatched,
                   launches, opt_steps, timeouts, probe>>

Next == Launch \/ Setup \/ Reseed \/ Step \/ Relaunch

Spec == Init /\ [][Next]_vars

----------------------------------------------------------------------------
(* The derivation alone, applied to two iteration counts *)

ProbeInit ==
    /\ pc = "probe"
    /\ Configs
    /\ timeout = Unbounded
    /\ file = Absent
    /\ Quiet
    /\ probe \in [i1 : 0..MaxProbeIter, i2 : 0..MaxProbeIter, base1 : {0}, base2 : {0},
                  lr1 : {0}, lr2 : {0}, done : {FALSE}]

Derive ==
    /\ pc = "probe"
    /\ ~probe.done
    /\ probe' = [probe EXCEPT
                   !.base1 = DecayBase(probe.i1, args_const),
                   !.base2 = DecayBase(probe.i2, args_const),
                   !.lr1 = LearningRate(lr_base, probe.i1, args_const, args_pow2),
                   !.lr2 = LearningRate(lr_base, probe.i2, args_const, args_pow2),
                   !.done = TRUE]
    /\ UNCHANGED <<pc, args_const, args_pow2, timeout, lr_base, learning_rate, i, file,
                   tasks, logger_i, hist, elapsed, maxiter, run_steps, rngX, rngY,
                   dispatched, launches, opt_steps, timeouts>>

ProbeNext == Derive

SpecSchedule == ProbeInit /\ [][ProbeNext]_vars

----------------------------------------------------------------------------
(* Properties *)

InRun == pc \in {"setup", "seed", "running", "terminated"}

\* C1: the learning rate is derived once per launch, from the iteration read from the
\* persisted history at that launch; no optimiser step and no other statement of the
\* run changes it, and it differs from the previous launch's rate only when the
\* iteration read at the launch has advanced.
C1_RateFixedWithinRun ==
    [][ /\ (pc # "launch" => learning_rate' = learning_rate /\ i' = i)
        /\ (learning_rate' # learning_rate => pc = "launch" /\ i' > i) ]_vars

\* a run whose iteration counter has crossed a decay step while the rate of the launch
\* is still in use
C1_Witness ==
    /\ pc = "running"
    /\ run_steps >= 1
    /\ args_pow2 >= 1
    /\ (logger_i \div args_const) > (i \div args_const)
    /\ learning_rate = Pow(1 + (i \div args_const), args_pow2)

\* C2 (as stated): two consecutive complete runs of N = const iterations, started
\* without a history, leave the history 1..N, N+1..2N.
C2_DenseHistory ==
    (pc = "terminated" /\ launches = 2 /\ ~timeout.finite)
        => (file.state = "valid" /\ file.log = [k \in 1..(2 * args_const) |-> k])

\* C2 (amended): the persisted history only grows, by records whose iteration is the
\* current iteration counter and lies above every iteration persisted before; a resumed
\* run starts counting at the last persisted iteration.
C2_NoRollback ==
    [][ /\ (file.state = "valid" =>
              /\ file'.state = "valid"
              /\ Len(file'.log) >= Len(file.log)
              /\ \A k \in 1..Len(file.log) : file'.log[k] = file.log[k])
        /\ (file' # file =>
              /\ Len(file'.log) = Len(file.log) + 1
              /\ file'.log[Len(file'.log)] = logger_i'
              /\ \A k \in 1..Len(file.log) : file.log[k] < logger_i')
        /\ (pc = "setup" /\ pc' = "seed" =>
              \A k \in 1..Len(file.log) : file.log[k] <= logger_i') ]_vars

\* a resumed run (it started counting at the iteration read at launch) has persisted a
\* record behind the last record of the run before
C2_Witness ==
    /\ launches = 2
    /\ pc \in {"running", "terminated"}
    /\ i >= 2
    /\ logger_i - run_steps = i
    /\ file.state = "valid"
    /\ Len(file.log) >= 2
    /\ file.log[Len(file.log) - 1] = i
    /\ file.log[Len(file.log)] > i

C4_CorruptIsFatal ==
    file.state = "corrupt" =>
        /\ pc \in {"launch", "crashed"}
        /\ i = 0
        /\ learning_rate = lr_base
        /\ tasks = <<>>
        /\ opt_steps = 0

C4_Witness == pc = "crashed" /\ file.state = "corrupt" /\ launches = 1

\* C5: a launch without a history file derives the rate from i = 0, which gives
\* lr_base for every const >= 1.
C5_EmptyHistoryUsesZero ==
    (pc = "setup" /\ file.state = "absent") => (i = 0 /\ learning_rate = lr_base)

\* C6: for i1 < i2 the derived rate of i2 is at most that of i1 (its inverse square is
\* at least that of i1); the decay base is non-decreasing in i and at least 1, and no
\* derived rate exceeds lr_base.
C6_MonotoneDecay ==
    probe.done =>
        /\ probe.base1 >= 1
        /\ probe.lr1 >= lr_base
        /\ (probe.i1 < probe.i2 =>
              /\ probe.base2 >= probe.base1
              /\ probe.lr2 >= probe.lr1)

\* two iteration counts on either side of a decay step, with a non-zero exponent
C6_Witness ==
    /\ probe.done
    /\ probe.i1 < probe.i2
    /\ args_pow2 >= 1
    /\ probe.lr2 > probe.lr1
    /\ probe.lr1 > lr_base

\* C7: the rate of a run is lr_base * (1 + floor(i / const))^(-pow) with lr_base the
\* configured rate and i the greatest iteration of the history file read at the launch;
\* for const = 3600 and i = 7200 the decay base is 3.
C7_RateFromHistoryMax ==
    /\ lr_base = 1
    /\ InRun => learning_rate = Pow(1 + (i \div args_const), args_pow2) * lr_base
    /\ (pc = "setup" /\ file.state = "valid") =>
          /\ \E k \in 1..Len(file.log) : file.log[k] = i
          /\ \A k \in 1..Len(file.log) : file.log[k] <= i
    /\ DecayBase(7200, 3600) = 3
    /\ LearningRate(lr_base, 7200, 3600, 1) = 3

\* a relaunch that read a history with fewer records than its greatest iteration and
\* derived a decayed rate from it
C7_Witness ==
    /\ pc = "setup"
    /\ launches >= 2
    /\ file.state = "valid"
    /\ i > Len(file.log)
    /\ learning_rate > lr_base

C8_Rank(n) ==
    CASE n = "DisplayOptimisation" -> 1
      [] n = "GPflowLogOptimisation" -> 2
      [] n = "GPflowMultiClassificationTrackerLml" -> 3
      [] n = "GPflowMultiClassificationTracker" -> 4
      [] n = "StoreOptimisationHistory" -> 5
      [] n = "Timeout" -> 6

\* C8: the tasks fired by one step are fired in the order display, metric logging, the
\* two evaluation trackers, history persistence, timeout.
C8_DispatchOrder ==
    \A a, b \in 1..Len(dispatched) :
        a < b => C8_Rank(dispatched[a]) < C8_Rank(dispatched[b])

\* a step in which all six tasks fired
C8_Witness == Len(dispatched) = 6

C9_TimeTriggered ==
    {"GPflowMultiClassificationTrackerLml", "GPflowMultiClassificationTracker",
     "StoreOptimisationHistory"}

C9_FirstPoint(n) == IF n = "GPflowMultiClassificationTrackerLml" THEN 1800 ELSE 30

\* C9: after the setup of every run the two evaluation trackers and the history
\* persistence are bound to the first fire point of their schedule and the elapsed time
\* is zero, while the iteration counter and the in-memory history are those of the
\* history file.
C9_FreshSchedules ==
    pc = "seed" =>
        /\ elapsed = 0
        /\ \A n \in C9_TimeTriggered :
              \E k \in 1..Len(tasks) :
                  tasks[k].name = n /\ tasks[k].trigger = "time"
                  /\ tasks[k].next = C9_FirstPoint(n)
        /\ hist = file.log
        /\ (file.state = "valid" => logger_i = file.log[Len(file.log)])
        /\ (file.state = "absent" => logger_i = 0)

\* the setup of a resumed run: the run before persisted a record, so its persistence
\* task had moved past its first fire point
C9_Witness ==
    /\ pc = "seed"
    /\ launches >= 2
    /\ logger_i >= 2
    /\ file.state = "valid"

\* C10: while a run is optimising, the X and Y samplers hold random sources created
\* from the same seed.
C10_SameSeed ==
    pc = "running" => (rngX.seeded /\ rngY.seeded /\ rngX.seed = rngY.seed)

\* a second run, reseeded with a non-zero seed
C10_Witness ==
    /\ pc = "running"
    /\ launches >= 2
    /\ rngX = Seeded(1)
    /\ rngY = Seeded(1)

====
